---- MODULE Spec2Model ----
(***************************************************************************)
(* A model of the pagination engine (Page, CursorPage) and of the          *)
(* WebSocket transport (WebSocketHandler.listen / stream) of the           *)
(* swarmnode-node client library.                                          *)
(*                                                                         *)
(* Three specifications share the module:                                  *)
(*   SpecPagination  getAPIList / getAPICursorList, getItems, hasNextPage, *)
(*                   getNextPage and the async iterators, against a server *)
(*                   that serves a finite chain of pages;                  *)
(*   SpecStream      WebSocketHandler.stream and its consumer;             *)
(*   SpecListen      WebSocketHandler.listen.                              *)
(***************************************************************************)
EXTENDS Integers, Sequences, FiniteSets, TLC

(***************************************************************************)
(* Bounds of the model.                                                    *)
(***************************************************************************)
MaxPages == 3          \* longest chain of pages the server holds
MaxManualCalls == 2    \* explicit getNextPage() calls made by the caller
MaxMsgs == 3           \* message events on one WebSocket connection
MaxTime == 4           \* the clock stops here
MaxTimeout == 2        \* largest options.timeout, in clock ticks
MaxPolls == 3          \* answers to builds.list in one waitForBuildCompletion

(***************************************************************************)
(* Pagination state.                                                       *)
(***************************************************************************)
VARIABLES
  server,      \* the chain of responses the list endpoint serves
  pages,       \* the page objects the caller holds (index 1 = first page)
  calls,       \* explicit getNextPage() calls: the requests each issued, its result
  itReqs,      \* the requests the traversal has handed to client.get, in order
  pending,     \* requests issued and not yet answered
  itPc,        \* position of the async iterator's generator
  itThis,      \* the page object the traversal was started on
  itSelf,      \* the iterator's local `self` / `currentPage`
  itIdx,       \* items of the current for-of pass already yielded
  yielded      \* everything the consumer of the traversal has received

(***************************************************************************)
(* The WebSocket connection and the clock (both handler methods).          *)
(***************************************************************************)
VARIABLES
  ws,          \* ws.readyState: "none" until createWebSocket has run
  wsOpened,    \* the 'open' event has been emitted on the connection
  wsErrored,   \* an 'error' event has been emitted on the connection
  received,    \* every fragment a 'message' event has carried, in order
  now,         \* the clock
  connections, \* createWebSocket calls made so far
  timeout,     \* options.timeout ?? DEFAULT_TIMEOUT of the call
  closeCalls,  \* ws.close() calls made by the handler
  uncaught,    \* exceptions thrown out of an event listener
  crashed      \* the process has died of an uncaught exception

evars == <<ws, wsOpened, wsErrored, received, now, connections, timeout, closeCalls,
          uncaught, crashed>>

(***************************************************************************)
(* WebSocketHandler.stream state.                                          *)
(***************************************************************************)
VARIABLES
  sPc,         \* the generator: "none" (stream() not called), "created"
               \* (returned by stream(), body not started), "waiting"
               \* (suspended in Promise.race), "yielded" (suspended at yield),
               \* "done", "failed", "returned"
  sErr,        \* the error the sequence failed with ("" if none)
  queue,       \* `queue` of stream()
  isConnectionClosed,
  sYielded,    \* the values the consumer has been given
  sTimer,      \* the single timer of timeoutPromise: "unset", "armed", "fired"
  sDeadline,   \* when that timer is due
  sWaitStart,  \* when the current (or last) wait on an empty queue began
  onceMsg,     \* ws.once('message') listeners currently registered
  onceClose    \* ws.once('close') listeners currently registered

svars == <<sPc, sErr, queue, isConnectionClosed, sYielded, sTimer, sDeadline,
           sWaitStart, onceMsg, onceClose>>

(***************************************************************************)
(* WebSocketHandler.listen state.                                          *)
(***************************************************************************)
VARIABLES
  lPc,         \* "none" before the call, "listening" after it
  chunks,      \* `chunks` of listen()
  lOutcome,    \* the promise listen() returned: pending, resolved or rejected
  lCalls,      \* every invocation of resolve or reject, in order
  lTimer,      \* timeoutId's timer: "unset", "armed", "cleared", "fired"
  lDeadline,   \* when that timer is due
  lEvents      \* the handlers of listen() that have run, in order

lvars == <<lPc, chunks, lOutcome, lCalls, lTimer, lDeadline, lEvents>>

pvarsButPending == <<server, pages, calls, itReqs, itPc, itThis, itSelf, itIdx, yielded>>

pvars == <<server, pages, calls, itReqs, pending, itPc, itThis, itSelf, itIdx, yielded>>

(***************************************************************************)
(* What a failed traversal threw, and a second traversal.                  *)
(***************************************************************************)
VARIABLES
  itErr,       \* the error the traversal's generator threw (0 if none)
  it2,         \* a second traversal: its generator's pc, this, self, idx, the
               \* requests it issued, what its consumer received, its error
  failures     \* every request the transport has failed, with the error raised

tvars == <<itErr, it2, failures>>

(***************************************************************************)
(* SwarmNodeAI.waitForBuildCompletion state.                               *)
(***************************************************************************)
VARIABLES
  wPc,         \* "none", "listing" (awaiting agentBuilderJobs.list), "polling"
               \* (awaiting builds.list), "returned", "thrown"
  wStart,      \* startTime
  wTimeoutMs,  \* timeoutMs
  wPolled,     \* what each answered builds.list call showed as first build
  wOutcome     \* what the call returned or threw

wvars == <<wPc, wStart, wTimeoutMs, wPolled, wOutcome>>

(***************************************************************************)
(* agent.execute state.                                                    *)
(***************************************************************************)
VARIABLES
  aPc,         \* "none", "creating" (awaiting the post), "listening" (awaiting
               \* listen), "returned", "failed"
  aWait,       \* options?.wait
  aPosts,      \* the posts made to the create endpoint
  aJob,        \* the AgentExecutorJobInfo the post answered with
  aListens,    \* the paths listen was called with, in order
  aResult      \* what execute returned or threw

avars == <<aPc, aWait, aPosts, aJob, aListens, aResult>>

ovars == <<tvars, wvars, avars>>

vars == <<pvars, evars, svars, lvars, ovars>>

(***************************************************************************)
(* Values.                                                                 *)
(***************************************************************************)
ListPath == "/v1/stores"

\* response.next : string | null.  A URL is kept as its path and the ordered
\* list of its query-string pairs.
NullNext == [tag |-> "null", path |-> "", qs |-> <<>>]
EmptyNext == [tag |-> "empty", path |-> "", qs |-> <<>>]
UrlNext(qs) == [tag |-> "url", path |-> "https://api/v1/stores/", qs |-> qs]

\* RequestOptions (client.ts); an absent field is "undef", an absent query
\* has hasQuery = FALSE.  A query is a set of <<key, value>> with unique keys.
NoOptions ==
  [hasQuery |-> FALSE, query |-> {}, headers |-> "undef", signal |-> "undef",
   timeout |-> "undef", body |-> "undef"]

OptionChoices ==
  { NoOptions,
    [hasQuery |-> TRUE, query |-> {<<"a", 1>>, <<"c", 3>>}, headers |-> "h1",
     signal |-> "sig1", timeout |-> "t1", body |-> "b1"] }

Transformers == {"none", "f"}

\* The transformer `f` decorates a raw item; "none" is an absent transformer.
ApplyTransformer(t, x) == IF t = "f" THEN x + 100 ELSE x

\* Array.prototype.map
RECURSIVE MapSeq(_, _)
MapSeq(t, s) ==
  IF s = <<>> THEN <<>> ELSE <<ApplyTransformer(t, Head(s))>> \o MapSeq(t, Tail(s))

\* `!!value` on string | null: null and "" are falsy.
Truthy(next) == next.tag # "null" /\ next.tag # "empty"

\* Object.fromEntries(url.searchParams): a later pair with the same key wins.
ObjectFromEntries(qs) ==
  { <<qs[i][1], qs[i][2]>> :
      i \in { j \in 1..Len(qs) : \A m \in (j+1)..Len(qs) : qs[m][1] # qs[j][1] } }

(***************************************************************************)
(* The list endpoint: it answers a request by the "page" query parameter   *)
(* (page 1 when absent).                                                   *)
(***************************************************************************)
PageParam(options) ==
  IF \E kv \in options.query : kv[1] = "page"
    THEN (CHOOSE kv \in options.query : kv[1] = "page")[2]
    ELSE 1

ServerResponse(path, options) == server[PageParam(options)]

\* raw results of page k: none, or two items found on no other page
ResultChoices(k) == { <<>>, <<10 * k + 1, 10 * k + 2>> }

\* what a next URL carries besides the page number: nothing, or the key "a"
\* (also a key of the first request) and the key "b" twice
ExtraParams == { <<>>, << <<"a", 5>>, <<"b", 2>>, <<"b", 4>> >> }

\* the raw results of every page of a chain of n pages
Chains ==
  UNION { { c \in [1..n -> UNION {ResultChoices(k) : k \in 1..n}] :
              \A k \in 1..n : c[k] \in ResultChoices(k) } : n \in 1..MaxPages }

\* The chain with its next links: page k links to page k+1, the last page's
\* next is `lastNext` (null or "").
Linked(c, extra, lastNext) ==
  [k \in DOMAIN c |->
     [next |-> IF k + 1 \in DOMAIN c THEN UrlNext(extra \o << <<"page", k + 1>> >>)
                                     ELSE lastNext,
      results |-> c[k]]]

(***************************************************************************)
(* Page                                                                    *)
(***************************************************************************)
NewPage(k, path, response, options, transformer) ==
  [kind |-> k, path |-> path, response |-> response, options |-> options,
   transformer |-> transformer]

PageGetItems(p) ==
  IF p.transformer # "none" THEN MapSeq(p.transformer, p.response.results)
                            ELSE p.response.results

PageHasNextPage(p) == Truthy(p.response.next)

\* mutant of PageNoNext: only null, not "", short-circuits
PageNoNext_OnlyNull(p) == p.response.next.tag = "null"

\* getNextPage's own test of `next` (it does not call hasNextPage)
PageNoNext(p) == ~Truthy(p.response.next)

\* mutant of PageNextOptions: the next URL's parameters are merged into the
\* previous query instead of replacing it
PageNextOptions_Merge(p) ==
  LET new == ObjectFromEntries(p.response.next.qs) IN
  [p.options EXCEPT !.hasQuery = TRUE,
                    !.query = {kv \in p.options.query : \A n \in new : n[1] # kv[1]} \cup new]

PageNextOptions(p) ==
  [p.options EXCEPT !.hasQuery = TRUE, !.query = ObjectFromEntries(p.response.next.qs)]

\* the request getNextPage issues and the page it builds from the answer
PageNextRequest(p) == [path |-> p.path, options |-> PageNextOptions(p)]

\* mutant of PageNextPage: the transformer is not handed to the new page
PageNextPage_NoTransformer(p, req, response) ==
  NewPage("Page", p.path, response, req.options, "none")

PageNextPage(p, req, response) ==
  NewPage("Page", p.path, response, req.options, p.transformer)

\* `null` where a page object is expected
NoPage == NewPage("none", "", [next |-> NullNext, results |-> <<>>], NoOptions, "none")

\* the items the for-of loop of the iterator drains on each pass
PageIterItems(this, self) == PageGetItems(this)

(***************************************************************************)
(* CursorPage                                                              *)
(***************************************************************************)
CursorPageGetItems(p) ==
  IF p.transformer # "none" THEN MapSeq(p.transformer, p.response.results)
                            ELSE p.response.results

CursorPageHasNextPage(p) == Truthy(p.response.next)

CursorPageNoNext(p) == ~Truthy(p.response.next)

CursorPageNextOptions(p) ==
  [p.options EXCEPT !.hasQuery = TRUE, !.query = ObjectFromEntries(p.response.next.qs)]

CursorPageNextRequest(p) == [path |-> p.path, options |-> CursorPageNextOptions(p)]

CursorPageNextPage(p, req, response) ==
  NewPage("CursorPage", p.path, response, req.options, p.transformer)

CursorPageIterItems(this, currentPage) == CursorPageGetItems(this)

(***************************************************************************)
(* Dispatch on the class of the page object.                               *)
(***************************************************************************)
GetItems(p) == IF p.kind = "Page" THEN PageGetItems(p) ELSE CursorPageGetItems(p)
HasNextPage(p) == IF p.kind = "Page" THEN PageHasNextPage(p) ELSE CursorPageHasNextPage(p)
NoNext(p) == IF p.kind = "Page" THEN PageNoNext(p) ELSE CursorPageNoNext(p)
NextRequest(p) == IF p.kind = "Page" THEN PageNextRequest(p) ELSE CursorPageNextRequest(p)
NextPage(p, req, response) ==
  IF p.kind = "Page" THEN PageNextPage(p, req, response)
                     ELSE CursorPageNextPage(p, req, response)
IterItems(this, self) ==
  IF this.kind = "Page" THEN PageIterItems(this, self) ELSE CursorPageIterItems(this, self)

(***************************************************************************)
(* The async iterator, run from one suspension point to the next.          *)
(* `idx` items of the current for-of pass have been yielded.  The result   *)
(* says where the generator stops: at a yield (with the item), at the      *)
(* await of getNextPage (a request is issued), or at its end.              *)
(***************************************************************************)
\* mutant of IterAdvance: the next page is requested together with the
\* first item of a pass
IterAdvance_Prefetch(this, self, idx) ==
  LET items == IterItems(this, self) IN
  IF idx < Len(items)
    THEN [pc |-> "yielded", idx |-> idx + 1, out |-> <<items[idx + 1]>>,
          self |-> self, fetch |-> idx = 0 /\ HasNextPage(self)]
    ELSE IF ~(self.kind # "none" /\ HasNextPage(self))
      THEN [pc |-> "done", idx |-> idx, out |-> <<>>, self |-> self, fetch |-> FALSE]
      ELSE [pc |-> "fetching", idx |-> idx, out |-> <<>>, self |-> self,
            fetch |-> TRUE]

IterAdvance(this, self, idx) ==
  LET items == IterItems(this, self) IN
  IF idx < Len(items)
    THEN [pc |-> "yielded", idx |-> idx + 1, out |-> <<items[idx + 1]>>,
          self |-> self, fetch |-> FALSE]
    ELSE IF ~(self.kind # "none" /\ HasNextPage(self))      \* !self?.hasNextPage()
      THEN [pc |-> "done", idx |-> idx, out |-> <<>>, self |-> self, fetch |-> FALSE]
      ELSE IF NoNext(self)
        \* getNextPage resolves to null without a request: self = null and
        \* the loop makes one more pass
        THEN IF 0 < Len(items)
               THEN [pc |-> "yielded", idx |-> 1, out |-> <<items[1]>>,
                     self |-> NoPage, fetch |-> FALSE]
               ELSE [pc |-> "done", idx |-> 0, out |-> <<>>, self |-> NoPage,
                     fetch |-> FALSE]
        ELSE [pc |-> "fetching", idx |-> idx, out |-> <<>>, self |-> self,
              fetch |-> TRUE]

\* a request of getNextPage on page object `p`, made for `by`: "manual" with
\* the index of the explicit call, or "iter" with its number in the traversal
Request(p, by, call) ==
  LET rq == NextRequest(p) IN
  [by |-> by, call |-> call, from |-> p, path |-> rq.path, options |-> rq.options]

\* mutant of IterRun: the next page is asked of `this`, not of `self`
IterRun_FromThis(this, self, idx, pend) ==
  LET r == IterAdvance(this, self, idx) IN
  /\ itPc' = r.pc
  /\ itIdx' = r.idx
  /\ itSelf' = r.self
  /\ yielded' = yielded \o r.out
  /\ IF r.fetch
       THEN /\ itReqs' = Append(itReqs, Request(this, "iter", Len(itReqs) + 1))
            /\ pending' = pend \cup {Request(this, "iter", Len(itReqs) + 1)}
       ELSE /\ itReqs' = itReqs
            /\ pending' = pend

\* the effect of running the generator, with `this` and `self` given, on the
\* iterator's variables and on the transport
IterRun(this, self, idx, pend) ==
  LET r == IterAdvance(this, self, idx) IN
  /\ itPc' = r.pc
  /\ itIdx' = r.idx
  /\ itSelf' = r.self
  /\ yielded' = yielded \o r.out
  /\ IF r.fetch
       THEN /\ itReqs' = Append(itReqs, Request(self, "iter", Len(itReqs) + 1))
            /\ pending' = pend \cup {Request(self, "iter", Len(itReqs) + 1)}
       ELSE /\ itReqs' = itReqs
            /\ pending' = pend

\* mutant of Iter2Run: the two traversals share one cursor
Iter2Run_SharedCursor(this, self, idx, pend) ==
  LET mine == IF itSelf.kind # "none" THEN itSelf ELSE self
      r == IterAdvance(this, mine, idx)
      rq == Request(mine, "iter2", Len(it2.reqs) + 1)
  IN /\ it2' = [pc |-> r.pc, this |-> this, self |-> r.self, idx |-> r.idx,
                reqs |-> IF r.fetch THEN Append(it2.reqs, rq) ELSE it2.reqs,
                yielded |-> it2.yielded \o r.out, err |-> it2.err]
     /\ pending' = IF r.fetch THEN pend \cup {rq} ELSE pend

\* the same generator run for the second traversal
Iter2Run(this, self, idx, pend) ==
  LET r == IterAdvance(this, self, idx)
      rq == Request(self, "iter2", Len(it2.reqs) + 1)
  IN /\ it2' = [pc |-> r.pc, this |-> this, self |-> r.self, idx |-> r.idx,
                reqs |-> IF r.fetch THEN Append(it2.reqs, rq) ELSE it2.reqs,
                yielded |-> it2.yielded \o r.out, err |-> it2.err]
     /\ pending' = IF r.fetch THEN pend \cup {rq} ELSE pend

(***************************************************************************)
(* JSON.parse on the texts the model's connections carry: a text is a      *)
(* sequence of the characters "[", "]" and "1".  The JSON documents among  *)
(* them are a number (one or more digits) or a number or nothing wrapped   *)
(* in d >= 1 pairs of brackets; the parsed value keeps the nesting depth   *)
(* and the number (-1 for none).                                           *)
(***************************************************************************)
RECURSIVE LeadingOpens(_)
LeadingOpens(t) ==
  IF t # <<>> /\ Head(t) = "[" THEN 1 + LeadingOpens(Tail(t)) ELSE 0

RECURSIVE TrailingCloses(_)
TrailingCloses(t) ==
  IF t # <<>> /\ t[Len(t)] = "]" THEN 1 + TrailingCloses(SubSeq(t, 1, Len(t) - 1)) ELSE 0

RECURSIVE Decimal(_)
Decimal(t) == IF t = <<>> THEN 0 ELSE 10 * Decimal(SubSeq(t, 1, Len(t) - 1)) + 1

ParseFailure == [ok |-> FALSE, depth |-> 0, num |-> 0]

JSONParse(t) ==
  LET d == LeadingOpens(t)
      c == TrailingCloses(t)
      mid == IF d + c <= Len(t) THEN SubSeq(t, d + 1, Len(t) - c) ELSE <<>>
  IN IF /\ d = c
        /\ d + c <= Len(t)
        /\ \A i \in 1..Len(mid) : mid[i] = "1"
        /\ (d >= 1 \/ Len(mid) >= 1)
       THEN [ok |-> TRUE, depth |-> d, num |-> IF mid = <<>> THEN -1 ELSE Decimal(mid)]
       ELSE ParseFailure

\* data.toString() of the message events the model delivers
Fragments == { <<"1">>, <<"[", "1", "]">>, <<"[">>, <<"1", "]">>, <<>> }

\* chunks.join('')
RECURSIVE Join(_)
Join(texts) == IF texts = <<>> THEN <<>> ELSE Head(texts) \o Join(Tail(texts))

(***************************************************************************)
(* The connection before any call.                                         *)
(***************************************************************************)
NoConnection ==
  /\ ws = "none"
  /\ wsOpened = FALSE
  /\ wsErrored = FALSE
  /\ received = <<>>
  /\ now = 0
  /\ connections = 0
  /\ timeout = 0
  /\ closeCalls = 0
  /\ uncaught = 0
  /\ crashed = FALSE

\* ws.close(): a connecting or open socket starts closing
WsAfterClose(state) == IF state \in {"CONNECTING", "OPEN"} THEN "CLOSING" ELSE state

\* time passes
Tick ==
  /\ ~crashed
  /\ now < MaxTime
  /\ now' = now + 1
  /\ UNCHANGED <<ws, wsOpened, wsErrored, received, connections, timeout, closeCalls,
                 uncaught, crashed>>
  /\ UNCHANGED <<ovars, pvars, svars, lvars>>

(***************************************************************************)
(* WebSocketHandler.stream                                                 *)
(***************************************************************************)
NoStream ==
  /\ sPc = "none"
  /\ sErr = ""
  /\ queue = <<>>
  /\ isConnectionClosed = FALSE
  /\ sYielded = <<>>
  /\ sTimer = "unset"
  /\ sDeadline = 0
  /\ sWaitStart = 0
  /\ onceMsg = 0
  /\ onceClose = 0

\* mutant of StreamStep: the loop takes the newest fragment of the queue
StreamStep_NewestFirst(q, closed, fired) ==
  IF closed
    THEN [pc |-> "done", err |-> "", queue |-> q, out |-> <<>>,
          waited |-> FALSE, ended |-> TRUE]
  ELSE IF Len(q) > 0
    THEN IF JSONParse(q[Len(q)]).ok
           THEN [pc |-> "yielded", err |-> "", queue |-> SubSeq(q, 1, Len(q) - 1),
                 out |-> <<JSONParse(q[Len(q)])>>, waited |-> FALSE, ended |-> FALSE]
           ELSE [pc |-> "failed", err |-> "parse", queue |-> SubSeq(q, 1, Len(q) - 1),
                 out |-> <<>>, waited |-> FALSE, ended |-> TRUE]
  ELSE IF fired
    THEN [pc |-> "failed", err |-> "timeout", queue |-> q, out |-> <<>>,
          waited |-> TRUE, ended |-> TRUE]
    ELSE [pc |-> "waiting", err |-> "", queue |-> q, out |-> <<>>,
          waited |-> TRUE, ended |-> FALSE]

\* processStreamMessages from the top of its while loop to the next
\* suspension point or to its end, with the queue, the closed flag and
\* whether timeoutPromise is already rejected.  `waited`: the loop reached
\* Promise.race (and registered its once-listeners); `ended`: the generator
\* finished, so stream()'s finally block runs.
StreamStep(q, closed, fired) ==
  IF closed
    THEN [pc |-> "done", err |-> "", queue |-> q, out |-> <<>>,
          waited |-> FALSE, ended |-> TRUE]
  ELSE IF Len(q) > 0
    THEN IF JSONParse(Head(q)).ok
           THEN [pc |-> "yielded", err |-> "", queue |-> Tail(q),
                 out |-> <<JSONParse(Head(q))>>, waited |-> FALSE, ended |-> FALSE]
           ELSE [pc |-> "failed", err |-> "parse", queue |-> Tail(q), out |-> <<>>,
                 waited |-> FALSE, ended |-> TRUE]
  ELSE IF fired
    THEN [pc |-> "failed", err |-> "timeout", queue |-> q, out |-> <<>>,
          waited |-> TRUE, ended |-> TRUE]
    ELSE [pc |-> "waiting", err |-> "", queue |-> q, out |-> <<>>,
          waited |-> TRUE, ended |-> FALSE]

\* mutant of StreamApply: the finally block calls ws.close() whatever the
\* readyState
StreamApply_AlwaysCloses(r, wsState, om, oc) ==
  /\ sPc' = r.pc
  /\ sErr' = r.err
  /\ queue' = r.queue
  /\ sYielded' = sYielded \o r.out
  /\ onceMsg' = IF r.waited THEN om + 1 ELSE om
  /\ onceClose' = IF r.waited THEN oc + 1 ELSE oc
  /\ sWaitStart' = IF r.waited THEN now ELSE sWaitStart
  /\ IF r.ended
       THEN /\ ws' = WsAfterClose(wsState)
            /\ closeCalls' = closeCalls + 1
       ELSE /\ ws' = wsState
            /\ closeCalls' = closeCalls

\* the effect of a run of the generator, and of stream()'s finally block if
\* it ended, given the socket state and the once-listeners before the run
StreamApply(r, wsState, om, oc) ==
  /\ sPc' = r.pc
  /\ sErr' = r.err
  /\ queue' = r.queue
  /\ sYielded' = sYielded \o r.out
  /\ onceMsg' = IF r.waited THEN om + 1 ELSE om
  /\ onceClose' = IF r.waited THEN oc + 1 ELSE oc
  /\ sWaitStart' = IF r.waited THEN now ELSE sWaitStart
  /\ IF r.ended /\ wsState # "CLOSED"
       THEN /\ ws' = WsAfterClose(wsState)
            /\ closeCalls' = closeCalls + 1
       ELSE /\ ws' = wsState
            /\ closeCalls' = closeCalls

\* mutant of StreamCall: the connection is created by the call itself, and
\* again by the body
StreamCall_Eager(t) ==
  /\ ~crashed
  /\ sPc = "none"
  /\ lPc = "none"
  /\ sPc' = "created"
  /\ timeout' = t
  /\ ws' = "CONNECTING"
  /\ connections' = connections + 1
  /\ UNCHANGED <<wsOpened, wsErrored, received, now, closeCalls, uncaught, crashed>>
  /\ UNCHANGED <<sErr, queue, isConnectionClosed, sYielded, sTimer, sDeadline,
                 sWaitStart, onceMsg, onceClose>>
  /\ UNCHANGED <<ovars, pvars, lvars>>

\* stream(path, options): an async generator function only binds its
\* arguments and returns the generator object; none of its body has run
StreamCall(t) ==
  /\ ~crashed
  /\ sPc = "none"
  /\ lPc = "none"
  /\ sPc' = "created"
  /\ timeout' = t
  /\ UNCHANGED <<ws, wsOpened, wsErrored, received, now, connections, closeCalls,
                 uncaught, crashed>>
  /\ UNCHANGED <<sErr, queue, isConnectionClosed, sYielded, sTimer, sDeadline,
                 sWaitStart, onceMsg, onceClose>>
  /\ UNCHANGED <<ovars, pvars, lvars>>

\* mutant of StreamStart: no timer backs timeoutPromise
StreamStart_NoTimer ==
  /\ ~crashed
  /\ sPc = "created"
  /\ now + timeout <= MaxTime
  /\ connections' = connections + 1
  /\ sTimer' = "unset"
  /\ sDeadline' = now + timeout
  /\ isConnectionClosed' = FALSE
  /\ StreamApply(StreamStep(queue, FALSE, FALSE), "CONNECTING", onceMsg, onceClose)
  /\ UNCHANGED <<wsOpened, wsErrored, received, now, timeout, uncaught, crashed>>
  /\ UNCHANGED <<ovars, pvars, lvars>>

\* First pull of the generator returned by stream(): createWebSocket,
\* setupStreamHandlers, the timer of timeoutPromise, then the loop.
StreamStart ==
  /\ ~crashed
  /\ sPc = "created"
  /\ now + timeout <= MaxTime
  /\ connections' = connections + 1
  /\ sTimer' = "armed"
  /\ sDeadline' = now + timeout
  /\ isConnectionClosed' = FALSE
  /\ StreamApply(StreamStep(queue, FALSE, FALSE), "CONNECTING", onceMsg, onceClose)
  /\ UNCHANGED <<wsOpened, wsErrored, received, now, timeout, uncaught, crashed>>
  /\ UNCHANGED <<ovars, pvars, lvars>>

\* the consumer gives the generator up before its first pull: return() on a
\* generator that has not started completes it without running its body
StreamReturnUnstarted ==
  /\ ~crashed
  /\ sPc = "created"
  /\ sPc' = "returned"
  /\ UNCHANGED evars
  /\ UNCHANGED <<sErr, queue, isConnectionClosed, sYielded, sTimer, sDeadline,
                 sWaitStart, onceMsg, onceClose>>
  /\ UNCHANGED <<ovars, pvars, lvars>>

\* a later pull by the consumer, after the item it was given
StreamPull ==
  /\ ~crashed
  /\ sPc = "yielded"
  /\ StreamApply(StreamStep(queue, isConnectionClosed, sTimer = "fired"),
                 ws, onceMsg, onceClose)
  /\ UNCHANGED <<wsOpened, wsErrored, received, now, connections, timeout, uncaught, crashed,
                 isConnectionClosed, sTimer, sDeadline>>
  /\ UNCHANGED <<ovars, pvars, lvars>>

\* mutant of StreamReturn: no finally block runs when the consumer leaves
StreamReturn_NoFinally ==
  /\ ~crashed
  /\ sPc = "yielded"
  /\ StreamApply([pc |-> "returned", err |-> "", queue |-> queue, out |-> <<>>,
                  waited |-> FALSE, ended |-> FALSE], ws, onceMsg, onceClose)
  /\ UNCHANGED <<wsOpened, wsErrored, received, now, connections, timeout, uncaught, crashed,
                 isConnectionClosed, sTimer, sDeadline>>
  /\ UNCHANGED <<ovars, pvars, lvars>>

\* the consumer leaves the loop after an item: the generator returns at its
\* yield and the finally block runs
StreamReturn ==
  /\ ~crashed
  /\ sPc = "yielded"
  /\ StreamApply([pc |-> "returned", err |-> "", queue |-> queue, out |-> <<>>,
                  waited |-> FALSE, ended |-> TRUE], ws, onceMsg, onceClose)
  /\ UNCHANGED <<wsOpened, wsErrored, received, now, connections, timeout, uncaught, crashed,
                 isConnectionClosed, sTimer, sDeadline>>
  /\ UNCHANGED <<ovars, pvars, lvars>>

\* 'open'
StreamOnOpen ==
  /\ ~crashed
  /\ sPc \notin {"none", "created"}
  /\ ws = "CONNECTING"
  /\ ws' = "OPEN"
  /\ wsOpened' = TRUE
  /\ UNCHANGED <<wsErrored, received, now, connections, timeout, closeCalls, uncaught, crashed>>
  /\ UNCHANGED svars
  /\ UNCHANGED <<ovars, pvars, lvars>>

\* 'message': the fragment is queued; the once-listeners of every wait so
\* far are called and removed; a waiting generator resumes
StreamOnMessage(f) ==
  /\ ~crashed
  /\ sPc \notin {"none", "created"}
  /\ ws \in {"OPEN", "CLOSING"}
  /\ wsOpened
  /\ Len(received) < MaxMsgs
  /\ received' = Append(received, f)
  /\ IF sPc = "waiting"
       THEN StreamApply(StreamStep(Append(queue, f), isConnectionClosed,
                                   sTimer = "fired"), ws, 0, onceClose)
       ELSE /\ queue' = Append(queue, f)
            /\ onceMsg' = 0
            /\ UNCHANGED <<sPc, sErr, sYielded, sWaitStart, onceClose, ws, closeCalls>>
  /\ UNCHANGED <<wsOpened, wsErrored, now, connections, timeout, uncaught, crashed,
                 isConnectionClosed, sTimer, sDeadline>>
  /\ UNCHANGED <<ovars, pvars, lvars>>

\* 'close': the closed flag is set; the once-listeners for close are called
\* and removed; a waiting generator resumes
StreamOnClose ==
  /\ ~crashed
  /\ sPc \notin {"none", "created"}
  /\ ws \in {"OPEN", "CLOSING"}
  /\ isConnectionClosed' = TRUE
  /\ IF sPc = "waiting"
       THEN StreamApply(StreamStep(queue, TRUE, sTimer = "fired"), "CLOSED", onceMsg, 0)
       ELSE /\ ws' = "CLOSED"
            /\ onceClose' = 0
            /\ UNCHANGED <<sPc, sErr, queue, sYielded, sWaitStart, onceMsg, closeCalls>>
  /\ UNCHANGED <<wsOpened, wsErrored, received, now, connections, timeout, uncaught, crashed, sTimer, sDeadline>>
  /\ UNCHANGED <<ovars, pvars, lvars>>

\* 'error': the listener of setupStreamHandlers throws inside the emit; the
\* exception is nobody's to catch, and the process dies of it unless an
\* uncaughtException handler is installed
StreamOnError ==
  /\ ~crashed
  /\ sPc \notin {"none", "created"}
  /\ ws \in {"CONNECTING", "OPEN", "CLOSING"}
  /\ ~wsErrored
  /\ wsErrored' = TRUE
  /\ ws' = "CLOSING"
  /\ uncaught' = uncaught + 1
  /\ crashed' \in BOOLEAN
  /\ UNCHANGED <<wsOpened, received, now, connections, timeout, closeCalls>>
  /\ UNCHANGED svars
  /\ UNCHANGED <<ovars, pvars, lvars>>

\* the timer of timeoutPromise runs: the promise is rejected, and a
\* generator suspended in Promise.race fails with it
StreamTimerFires ==
  /\ ~crashed
  /\ sTimer = "armed"
  /\ now >= sDeadline
  /\ sTimer' = "fired"
  /\ IF sPc = "waiting"
       THEN StreamApply([pc |-> "failed", err |-> "timeout", queue |-> queue,
                         out |-> <<>>, waited |-> FALSE, ended |-> TRUE],
                        ws, onceMsg, onceClose)
       ELSE UNCHANGED <<sPc, sErr, queue, sYielded, sWaitStart, onceMsg, onceClose,
                        ws, closeCalls>>
  /\ UNCHANGED <<wsOpened, wsErrored, received, now, connections, timeout, uncaught, crashed,
                 isConnectionClosed, sDeadline>>
  /\ UNCHANGED <<ovars, pvars, lvars>>

NextStream ==
  \/ \E t \in 1..MaxTimeout : StreamCall(t)
  \/ StreamStart
  \/ StreamReturnUnstarted
  \/ StreamPull
  \/ StreamReturn
  \/ StreamOnOpen
  \/ \E f \in Fragments : StreamOnMessage(f)
  \/ StreamOnClose
  \/ StreamOnError
  \/ StreamTimerFires
  \/ Tick

(***************************************************************************)
(* WebSocketHandler.listen                                                 *)
(***************************************************************************)
Pending == [state |-> "pending", why |-> "", value |-> ParseFailure]

NoListen ==
  /\ lPc = "none"
  /\ chunks = <<>>
  /\ lOutcome = Pending
  /\ lCalls = <<>>
  /\ lTimer = "unset"
  /\ lDeadline = 0
  /\ lEvents = <<>>

\* what a resolve(value) or reject(error) call would settle the promise to
Resolved(v) == [state |-> "resolved", why |-> "value", value |-> v]
Rejected(why) == [state |-> "rejected", why |-> why, value |-> ParseFailure]

\* mutant of Settle: a later call of resolve or reject settles again
Settle_LastCallWins(outcome, call) == call

\* new Promise((resolve, reject) => ...): the first call of resolve or
\* reject settles the promise, later calls do nothing
Settle(outcome, call) == IF outcome.state = "pending" THEN call ELSE outcome

\* mutant of HandleWebSocketClose: no test for an empty message
HandleWebSocketClose_NoEmptyTest(chnks) ==
  LET message == Join(chnks) IN
  IF JSONParse(message).ok THEN Resolved(JSONParse(message))
  ELSE Rejected("parse")

\* handleWebSocketClose: the resolve or reject call it makes
HandleWebSocketClose(chnks) ==
  LET message == Join(chnks) IN
  IF message = <<>> THEN Rejected("empty")
  ELSE IF JSONParse(message).ok THEN Resolved(JSONParse(message))
  ELSE Rejected("parse")

\* mutant of ClearTimeout: the timer is left as it is
ClearTimeout_Forgotten(t) == t

\* clearTimeout(timeoutId)
ClearTimeout(t) == IF t = "armed" THEN "cleared" ELSE t

\* the body of listen(path, options) with timeout t: createWebSocket, the
\* timer, the three handlers
ListenStart(t) ==
  /\ ~crashed
  /\ lPc = "none"
  /\ sPc = "none"
  /\ lPc' = "listening"
  /\ ws' = "CONNECTING"
  /\ connections' = connections + 1
  /\ timeout' = t
  /\ lTimer' = "armed"
  /\ lDeadline' = now + t
  /\ UNCHANGED <<chunks, lOutcome, lCalls, lEvents>>
  /\ UNCHANGED <<wsOpened, wsErrored, received, now, closeCalls, uncaught, crashed>>

\* listen(path, options) called by the program itself
ListenCall(t) ==
  /\ ListenStart(t)
  /\ UNCHANGED <<ovars, pvars, svars>>

\* 'open'
ListenOnOpen ==
  /\ ~crashed
  /\ lPc = "listening"
  /\ ws = "CONNECTING"
  /\ ws' = "OPEN"
  /\ wsOpened' = TRUE
  /\ UNCHANGED <<wsErrored, received, now, connections, timeout, closeCalls, uncaught, crashed>>
  /\ UNCHANGED <<ovars, pvars, svars, lvars>>

\* mutant of ListenOnMessage: a fragment restarts the timer
ListenOnMessage_RearmsTimer(f) ==
  /\ ~crashed
  /\ lPc = "listening"
  /\ ws \in {"OPEN", "CLOSING"}
  /\ wsOpened
  /\ Len(received) < MaxMsgs
  /\ received' = Append(received, f)
  /\ chunks' = Append(chunks, f)
  /\ lEvents' = Append(lEvents, "message")
  /\ lDeadline' = IF lTimer = "armed" THEN now + timeout ELSE lDeadline
  /\ UNCHANGED <<lPc, lOutcome, lCalls, lTimer>>
  /\ UNCHANGED <<ws, wsOpened, wsErrored, now, connections, timeout, closeCalls, uncaught, crashed>>
  /\ UNCHANGED <<ovars, pvars, svars>>

\* 'message'
ListenOnMessage(f) ==
  /\ ~crashed
  /\ lPc = "listening"
  /\ ws \in {"OPEN", "CLOSING"}
  /\ wsOpened
  /\ Len(received) < MaxMsgs
  /\ received' = Append(received, f)
  /\ chunks' = Append(chunks, f)
  /\ lEvents' = Append(lEvents, "message")
  /\ UNCHANGED <<lPc, lOutcome, lCalls, lTimer, lDeadline>>
  /\ UNCHANGED <<ws, wsOpened, wsErrored, now, connections, timeout, closeCalls, uncaught, crashed>>
  /\ UNCHANGED <<ovars, pvars, svars>>

\* mutant of ListenOnClose: only the last fragment is handed to
\* handleWebSocketClose
ListenOnClose_LastChunk ==
  /\ ~crashed
  /\ lPc = "listening"
  /\ ws \in {"OPEN", "CLOSING"}
  /\ ws' = "CLOSED"
  /\ lTimer' = ClearTimeout(lTimer)
  /\ lCalls' = Append(lCalls, HandleWebSocketClose(IF chunks = <<>> THEN <<>> ELSE <<chunks[Len(chunks)]>>))
  /\ lOutcome' = Settle(lOutcome, HandleWebSocketClose(IF chunks = <<>> THEN <<>> ELSE <<chunks[Len(chunks)]>>))
  /\ lEvents' = Append(lEvents, "close")
  /\ UNCHANGED <<lPc, chunks, lDeadline>>
  /\ UNCHANGED <<wsOpened, wsErrored, received, now, connections, timeout, closeCalls, uncaught, crashed>>
  /\ UNCHANGED <<ovars, pvars, svars>>

\* mutant of ListenOnClose: the promise takes what the close handler gives it
ListenOnClose_Overrides ==
  /\ ~crashed
  /\ lPc = "listening"
  /\ ws \in {"OPEN", "CLOSING"}
  /\ ws' = "CLOSED"
  /\ lTimer' = ClearTimeout(lTimer)
  /\ lCalls' = Append(lCalls, HandleWebSocketClose(chunks))
  /\ lOutcome' = HandleWebSocketClose(chunks)
  /\ lEvents' = Append(lEvents, "close")
  /\ UNCHANGED <<lPc, chunks, lDeadline>>
  /\ UNCHANGED <<wsOpened, wsErrored, received, now, connections, timeout, closeCalls, uncaught, crashed>>
  /\ UNCHANGED <<ovars, pvars, svars>>

\* 'close'
ListenOnClose ==
  /\ ~crashed
  /\ lPc = "listening"
  /\ ws \in {"OPEN", "CLOSING"}
  /\ ws' = "CLOSED"
  /\ lTimer' = ClearTimeout(lTimer)
  /\ lCalls' = Append(lCalls, HandleWebSocketClose(chunks))
  /\ lOutcome' = Settle(lOutcome, HandleWebSocketClose(chunks))
  /\ lEvents' = Append(lEvents, "close")
  /\ UNCHANGED <<lPc, chunks, lDeadline>>
  /\ UNCHANGED <<wsOpened, wsErrored, received, now, connections, timeout, closeCalls, uncaught, crashed>>
  /\ UNCHANGED <<ovars, pvars, svars>>

\* mutant of ListenOnError: the handler does not reject
ListenOnError_NoReject ==
  /\ ~crashed
  /\ lPc = "listening"
  /\ ws \in {"CONNECTING", "OPEN", "CLOSING"}
  /\ ~wsErrored
  /\ wsErrored' = TRUE
  /\ ws' = "CLOSING"
  /\ lTimer' = ClearTimeout(lTimer)
  /\ lEvents' = Append(lEvents, "error")
  /\ UNCHANGED <<lPc, chunks, lDeadline, lOutcome, lCalls>>
  /\ UNCHANGED <<wsOpened, received, now, connections, timeout, closeCalls, uncaught, crashed>>
  /\ UNCHANGED <<ovars, pvars, svars>>

\* 'error'
ListenOnError ==
  /\ ~crashed
  /\ lPc = "listening"
  /\ ws \in {"CONNECTING", "OPEN", "CLOSING"}
  /\ ~wsErrored
  /\ wsErrored' = TRUE
  /\ ws' = "CLOSING"
  /\ lTimer' = ClearTimeout(lTimer)
  /\ lCalls' = Append(lCalls, Rejected("error"))
  /\ lOutcome' = Settle(lOutcome, Rejected("error"))
  /\ lEvents' = Append(lEvents, "error")
  /\ UNCHANGED <<lPc, chunks, lDeadline>>
  /\ UNCHANGED <<wsOpened, received, now, connections, timeout, closeCalls, uncaught, crashed>>
  /\ UNCHANGED <<ovars, pvars, svars>>

\* mutant of ListenTimerFires: the callback rejects and leaves the
\* connection alone
ListenTimerFires_NoClose ==
  /\ ~crashed
  /\ lTimer = "armed"
  /\ now >= lDeadline
  /\ lTimer' = "fired"
  /\ lCalls' = Append(lCalls, Rejected("timeout"))
  /\ lOutcome' = Settle(lOutcome, Rejected("timeout"))
  /\ lEvents' = Append(lEvents, "timeout")
  /\ UNCHANGED <<lPc, chunks, lDeadline>>
  /\ UNCHANGED <<ws, closeCalls, wsOpened, wsErrored, received, now, connections, timeout,
                 uncaught, crashed>>
  /\ UNCHANGED <<ovars, pvars, svars>>

\* the setTimeout callback
ListenTimerFires ==
  /\ ~crashed
  /\ lTimer = "armed"
  /\ now >= lDeadline
  /\ lTimer' = "fired"
  /\ lCalls' = Append(lCalls, Rejected("timeout"))
  /\ lOutcome' = Settle(lOutcome, Rejected("timeout"))
  /\ ws' = WsAfterClose(ws)
  /\ closeCalls' = closeCalls + 1
  /\ lEvents' = Append(lEvents, "timeout")
  /\ UNCHANGED <<lPc, chunks, lDeadline>>
  /\ UNCHANGED <<wsOpened, wsErrored, received, now, connections, timeout, uncaught, crashed>>
  /\ UNCHANGED <<ovars, pvars, svars>>

NextListen ==
  \/ \E t \in 1..MaxTimeout : ListenCall(t)
  \/ ListenOnOpen
  \/ \E f \in Fragments : ListenOnMessage(f)
  \/ ListenOnClose
  \/ ListenOnError
  \/ ListenTimerFires
  \/ Tick

(***************************************************************************)
(* The state of the operations a program has not called.                   *)
(***************************************************************************)
NoIt2 == [pc |-> "none", this |-> NoPage, self |-> NoPage, idx |-> 0,
          reqs |-> <<>>, yielded |-> <<>>, err |-> 0]

NoSecondTraversal ==
  /\ itErr = 0
  /\ it2 = NoIt2
  /\ failures = {}

NoBuild == [id |-> 0, status |-> "none"]

NoBuildWait ==
  /\ wPc = "none"
  /\ wStart = 0
  /\ wTimeoutMs = 0
  /\ wPolled = <<>>
  /\ wOutcome = [kind |-> "pending", error |-> "", build |-> NoBuild]

NoJob == [id |-> 0, execution_address |-> ""]

NoExecute ==
  /\ aPc = "none"
  /\ aWait = "absent"
  /\ aPosts = <<>>
  /\ aJob = NoJob
  /\ aListens = <<>>
  /\ aResult = [type |-> "pending", job |-> NoJob, execution |-> Pending, error |-> ""]

NoOthers == NoSecondTraversal /\ NoBuildWait /\ NoExecute

(***************************************************************************)
(* Initial state: the server holds a chain, nothing has been requested.    *)
(***************************************************************************)
InitPagination ==
  /\ NoConnection
  /\ NoStream
  /\ NoListen
  /\ NoOthers
  /\ server \in { Linked(c, extra, lastNext) :
                    c \in Chains, extra \in ExtraParams, lastNext \in {NullNext, EmptyNext} }
  /\ pages = <<>>
  /\ calls = <<>>
  /\ itReqs = <<>>
  /\ pending = {}
  /\ itPc = "none"
  /\ itThis = NoPage
  /\ itSelf = NoPage
  /\ itIdx = 0
  /\ yielded = <<>>

(***************************************************************************)
(* APIClient.getAPIList / getAPICursorList: fetch the first page.          *)
(***************************************************************************)
GetAPIList(options, transformer) ==
  /\ pages = <<>>
  /\ pages' = <<NewPage("Page", ListPath, ServerResponse(ListPath, options),
                        options, transformer)>>
  /\ UNCHANGED <<server, calls, itReqs, pending, itPc, itThis, itSelf, itIdx, yielded>>
  /\ UNCHANGED <<ovars, evars, svars, lvars>>

GetAPICursorList(options, transformer) ==
  /\ pages = <<>>
  /\ pages' = <<NewPage("CursorPage", ListPath, ServerResponse(ListPath, options),
                        options, transformer)>>
  /\ UNCHANGED <<server, calls, itReqs, pending, itPc, itThis, itSelf, itIdx, yielded>>
  /\ UNCHANGED <<ovars, evars, svars, lvars>>

(***************************************************************************)
(* page.getNextPage() called by the user on a page it holds.               *)
(***************************************************************************)
\* The caller awaits one explicit call before it makes the next; the
\* traversal runs concurrently with these calls.
CallGetNextPage(p) ==
  /\ Len(calls) < MaxManualCalls
  /\ \A r \in pending : r.by # "manual"
  /\ IF NoNext(pages[p])
       THEN /\ calls' = Append(calls, [on |-> p, status |-> "null", result |-> 0,
                                       reqs |-> <<>>])
            /\ UNCHANGED pending
       ELSE LET r == Request(pages[p], "manual", Len(calls) + 1)
            IN /\ calls' = Append(calls, [on |-> p, status |-> "pending", result |-> 0,
                                          reqs |-> <<r>>])
               /\ pending' = pending \cup {r}
  /\ UNCHANGED <<server, pages, itReqs, itPc, itThis, itSelf, itIdx, yielded>>
  /\ UNCHANGED <<ovars, evars, svars, lvars>>

(***************************************************************************)
(* The transport answers a request: the awaiting getNextPage builds the    *)
(* next page and its caller resumes.                                       *)
(***************************************************************************)
Reply(r) ==
  LET response == ServerResponse(r.path, r.options)
      page == NextPage(r.from, r, response)
  IN /\ IF r.by = "manual"
          THEN /\ pages' = Append(pages, page)
               /\ calls' = [calls EXCEPT ![r.call].status = "page",
                                         ![r.call].result = Len(pages) + 1]
               /\ pending' = pending \ {r}
               /\ UNCHANGED <<itReqs, itPc, itThis, itSelf, itIdx, yielded>>
          ELSE IF r.by = "iter"
            THEN /\ IterRun(itThis, page, 0, pending \ {r})
                 /\ UNCHANGED <<pages, calls, itThis>>
            ELSE /\ Iter2Run(it2.this, page, 0, pending \ {r})
                 /\ UNCHANGED <<pages, calls, itReqs, itPc, itThis, itSelf, itIdx, yielded>>
     /\ IF r.by = "iter2" THEN UNCHANGED <<itErr, failures>> ELSE UNCHANGED tvars
     /\ UNCHANGED server
  /\ UNCHANGED <<wvars, avars, evars, svars, lvars>>

\* the errors client.get rejects with
TransportErrors == {404, 500}

\* the error the server has for a request: one for the requests of explicit
\* calls, another for those of traversals
ErrorFor(r) == IF r.by = "manual" THEN 404 ELSE 500

\* mutant of ReplyError: the error is caught and replaced by a generic one
ReplyError_Replaced(r, e) ==
  /\ pending' = pending \ {r}
  /\ failures' = failures \cup {[req |-> r, error |-> e]}
  /\ IF r.by = "manual"
       THEN /\ calls' = [calls EXCEPT ![r.call].status = "error", ![r.call].result = 1]
            /\ UNCHANGED <<itPc, itErr, it2>>
       ELSE IF r.by = "iter"
         THEN /\ itPc' = "failed"
              /\ itErr' = 1
              /\ UNCHANGED <<calls, it2>>
         ELSE /\ it2' = [it2 EXCEPT !.pc = "failed", !.err = 1]
              /\ UNCHANGED <<calls, itPc, itErr>>
  /\ UNCHANGED <<server, pages, itReqs, itThis, itSelf, itIdx, yielded>>
  /\ UNCHANGED <<wvars, avars, evars, svars, lvars>>

\* The transport fails a request with error e: the await in getNextPage
\* throws it, no handler is in the way, and it reaches the caller of
\* getNextPage or, through the generator, the consumer of the traversal.
ReplyError(r, e) ==
  /\ pending' = pending \ {r}
  /\ failures' = failures \cup {[req |-> r, error |-> e]}
  /\ IF r.by = "manual"
       THEN /\ calls' = [calls EXCEPT ![r.call].status = "error", ![r.call].result = e]
            /\ UNCHANGED <<itPc, itErr, it2>>
       ELSE IF r.by = "iter"
         THEN /\ itPc' = "failed"
              /\ itErr' = e
              /\ UNCHANGED <<calls, it2>>
         ELSE /\ it2' = [it2 EXCEPT !.pc = "failed", !.err = e]
              /\ UNCHANGED <<calls, itPc, itErr>>
  /\ UNCHANGED <<server, pages, itReqs, itThis, itSelf, itIdx, yielded>>
  /\ UNCHANGED <<wvars, avars, evars, svars, lvars>>

(***************************************************************************)
(* The consumer of `for await (const item of page)`.                       *)
(***************************************************************************)
\* first pull: the generator starts with self = this
IterStart(p) ==
  /\ itPc = "none"
  /\ itThis' = pages[p]
  /\ IterRun(pages[p], pages[p], 0, pending)
  /\ UNCHANGED <<server, pages, calls>>
  /\ UNCHANGED <<ovars, evars, svars, lvars>>

\* a later pull, after the consumer has handled the item it was given
IterNext ==
  /\ itPc = "yielded"
  /\ IterRun(itThis, itSelf, itIdx, pending)
  /\ UNCHANGED <<server, pages, calls, itThis>>
  /\ UNCHANGED <<ovars, evars, svars, lvars>>

\* the consumer leaves the loop (break / return) after an item
IterReturn ==
  /\ itPc = "yielded"
  /\ itPc' = "returned"
  /\ UNCHANGED <<server, pages, calls, itReqs, pending, itThis, itSelf, itIdx, yielded>>
  /\ UNCHANGED <<ovars, evars, svars, lvars>>

\* a second `for await` over a page the caller holds: first pull
Iter2Start(p) ==
  /\ it2.pc = "none"
  /\ Iter2Run(pages[p], pages[p], 0, pending)
  /\ UNCHANGED <<itErr, failures>>
  /\ UNCHANGED pvarsButPending
  /\ UNCHANGED <<wvars, avars, evars, svars, lvars>>

\* a later pull of the second traversal
Iter2Next ==
  /\ it2.pc = "yielded"
  /\ Iter2Run(it2.this, it2.self, it2.idx, pending)
  /\ UNCHANGED <<itErr, failures>>
  /\ UNCHANGED pvarsButPending
  /\ UNCHANGED <<wvars, avars, evars, svars, lvars>>

NextPagination ==
  \/ \E o \in OptionChoices, t \in Transformers : GetAPIList(o, t)
  \/ \E o \in OptionChoices, t \in Transformers : GetAPICursorList(o, t)
  \/ \E p \in 1..Len(pages) : CallGetNextPage(p)
  \/ \E r \in pending : Reply(r)
  \/ \E r \in pending : ReplyError(r, ErrorFor(r))
  \/ \E p \in 1..Len(pages) : IterStart(p)
  \/ IterNext
  \/ IterReturn

\* the pagination variables of a program that lists nothing
NoPagination ==
  /\ server = <<>>
  /\ pages = <<>>
  /\ calls = <<>>
  /\ itReqs = <<>>
  /\ pending = {}
  /\ itPc = "none"
  /\ itThis = NoPage
  /\ itSelf = NoPage
  /\ itIdx = 0
  /\ yielded = <<>>

InitStream == NoPagination /\ NoConnection /\ NoStream /\ NoListen /\ NoOthers

SpecStream == InitStream /\ [][NextStream]_vars

\* the fragments of the liveness specification: one that is JSON and one that
\* is not
LiveFragments == { <<"1">>, <<"[">> }

NextStreamLive ==
  \/ \E t \in 1..MaxTimeout : StreamCall(t)
  \/ StreamStart
  \/ StreamReturnUnstarted
  \/ StreamPull
  \/ StreamReturn
  \/ StreamOnOpen
  \/ \E f \in LiveFragments : StreamOnMessage(f)
  \/ StreamOnClose
  \/ StreamOnError
  \/ StreamTimerFires
  \/ Tick

\* the event loop of a live process lets time pass and runs a timer that is
\* due
SpecStreamLive ==
  InitStream /\ [][NextStreamLive]_vars /\ WF_vars(Tick) /\ WF_vars(StreamTimerFires)

InitListen == NoPagination /\ NoConnection /\ NoStream /\ NoListen /\ NoOthers

SpecListen == InitListen /\ [][NextListen]_vars

SpecPagination == InitPagination /\ [][NextPagination]_vars

\* a program that lists, calls getNextPage on the first page, awaits the
\* answers, and then runs two traversals of that page concurrently, the
\* transport answering every request
NextTraversals ==
  \/ \E o \in OptionChoices, t \in Transformers : GetAPIList(o, t)
  \/ \E o \in OptionChoices, t \in Transformers : GetAPICursorList(o, t)
  \/ (pages # <<>> /\ itPc = "none" /\ it2.pc = "none" /\ CallGetNextPage(1))
  \/ \E r \in pending : Reply(r)
  \/ (pages # <<>> /\ pending = {} /\ IterStart(1))
  \/ IterNext
  \/ (pages # <<>> /\ (pending = {} \/ itPc # "none") /\ Iter2Start(1))
  \/ Iter2Next

SpecTraversals == InitPagination /\ [][NextTraversals]_vars

(***************************************************************************)
(* SwarmNodeAI.waitForBuildCompletion                                      *)
(***************************************************************************)
\* what builds.list(...).getItems()[0] can be: undefined, or a build that is
\* still in progress, has succeeded or has failed
PolledBuilds ==
  {NoBuild} \cup {[id |-> 7, status |-> st] : st \in {"in_progress", "success", "failure"}}

Returned(b) == [kind |-> "returned", error |-> "", build |-> b]
Thrown(why) == [kind |-> "thrown", error |-> why, build |-> NoBuild]

\* the while condition, and what follows it: another builds.list call, or
\* the end of the function body, which returns undefined
LoopTest(start, t) ==
  IF now - start < t
    THEN [pc |-> "polling", outcome |-> wOutcome]
    ELSE [pc |-> "returned", outcome |-> Returned(NoBuild)]

\* waitForBuildCompletion(agentId, timeoutMs): agentBuilderJobs.list is awaited
WaitCall(t) ==
  /\ wPc = "none"
  /\ wPc' = "listing"
  /\ wTimeoutMs' = t
  /\ UNCHANGED <<wStart, wPolled, wOutcome>>
  /\ UNCHANGED <<tvars, avars, pvars, evars, svars, lvars>>

\* the job list is answered: no first job throws; otherwise startTime is
\* taken and the loop is entered
WaitJobsReply(found) ==
  /\ wPc = "listing"
  /\ IF ~found
       THEN /\ wPc' = "thrown"
            /\ wOutcome' = Thrown("Agent builder job not found")
            /\ UNCHANGED wStart
       ELSE /\ wStart' = now
            /\ wPc' = LoopTest(now, wTimeoutMs).pc
            /\ wOutcome' = LoopTest(now, wTimeoutMs).outcome
  /\ UNCHANGED <<wTimeoutMs, wPolled>>
  /\ UNCHANGED <<tvars, avars, pvars, evars, svars, lvars>>

\* builds.list is answered with b as first build
WaitPollReply(b) ==
  /\ wPc = "polling"
  /\ Len(wPolled) < MaxPolls
  /\ wPolled' = Append(wPolled, b)
  /\ IF b = NoBuild
       THEN /\ wPc' = LoopTest(wStart, wTimeoutMs).pc              \* continue
            /\ wOutcome' = LoopTest(wStart, wTimeoutMs).outcome
       ELSE IF b.status = "success"
         THEN /\ wPc' = "returned"
              /\ wOutcome' = Returned(b)
       ELSE IF b.status = "failure"
         THEN /\ wPc' = "thrown"
              /\ wOutcome' = Thrown("Build failed")
       ELSE /\ wPc' = LoopTest(wStart, wTimeoutMs).pc
            /\ wOutcome' = LoopTest(wStart, wTimeoutMs).outcome
  /\ UNCHANGED <<wStart, wTimeoutMs>>
  /\ UNCHANGED <<tvars, avars, pvars, evars, svars, lvars>>

\* agentBuilderJobs.list or builds.list rejects: the await throws out of the
\* function
WaitListError ==
  /\ wPc \in {"listing", "polling"}
  /\ wPc' = "thrown"
  /\ wOutcome' = Thrown("transport")
  /\ UNCHANGED <<wStart, wTimeoutMs, wPolled>>
  /\ UNCHANGED <<tvars, avars, pvars, evars, svars, lvars>>

NextBuildWait ==
  \/ \E t \in 0..MaxTimeout : WaitCall(t)
  \/ \E found \in BOOLEAN : WaitJobsReply(found)
  \/ \E b \in PolledBuilds : WaitPollReply(b)
  \/ WaitListError
  \/ Tick

InitBuildWait == NoPagination /\ NoConnection /\ NoStream /\ NoListen /\ NoOthers

SpecBuildWait == InitBuildWait /\ [][NextBuildWait]_vars

(***************************************************************************)
(* agent.execute                                                           *)
(***************************************************************************)
\* this.DEFAULT_TIMEOUT, on the clock's scale
DEFAULT_TIMEOUT == MaxTimeout

\* options?.wait: absent, false or true
WaitOptions == {"absent", "false", "true"}
WaitRequested(w) == w = "true"

\* the jobs the create endpoint can answer with
Jobs == {[id |-> 1, execution_address |-> "addr1"], [id |-> 2, execution_address |-> "addr2"]}

CreatePath == <<"v1", "agent-executor-jobs", "create">>
ExecutionPath(address) == <<"v1", "execution", address>>

\* execute(options): the post to the create endpoint is awaited
ExecuteCall(w) ==
  /\ ~crashed
  /\ aPc = "none"
  /\ lPc = "none"
  /\ sPc = "none"
  /\ aPc' = "creating"
  /\ aWait' = w
  /\ aPosts' = Append(aPosts, CreatePath)
  /\ UNCHANGED <<aJob, aListens, aResult>>
  /\ UNCHANGED <<tvars, wvars, pvars, evars, svars, lvars>>

\* mutant of ExecuteCreateReply: listen is called whatever options.wait is
ExecuteCreateReply_AlwaysListens(job) ==
  /\ aPc = "creating"
  /\ aJob' = job
  /\ ListenStart(DEFAULT_TIMEOUT)
  /\ aListens' = Append(aListens, ExecutionPath(job.execution_address))
  /\ aPc' = "listening"
  /\ UNCHANGED <<aWait, aPosts, aResult>>
  /\ UNCHANGED <<tvars, wvars, pvars, svars>>

\* the post is answered with a job: with wait, listen is called on the job's
\* execution address and awaited; without, the job is returned
ExecuteCreateReply(job) ==
  /\ aPc = "creating"
  /\ aJob' = job
  /\ IF WaitRequested(aWait)
       THEN /\ ListenStart(DEFAULT_TIMEOUT)
            /\ aListens' = Append(aListens, ExecutionPath(job.execution_address))
            /\ aPc' = "listening"
            /\ UNCHANGED aResult
       ELSE /\ aPc' = "returned"
            /\ aResult' = [type |-> "agent_executor_job", job |-> job,
                           execution |-> Pending, error |-> ""]
            /\ UNCHANGED <<aListens, evars, lvars>>
  /\ UNCHANGED <<aWait, aPosts>>
  /\ UNCHANGED <<tvars, wvars, pvars, svars>>

\* the post rejects: the await throws out of execute
ExecuteCreateError ==
  /\ aPc = "creating"
  /\ aPc' = "failed"
  /\ aResult' = [type |-> "thrown", job |-> NoJob, execution |-> Pending, error |-> "create"]
  /\ UNCHANGED <<aWait, aPosts, aJob, aListens>>
  /\ UNCHANGED <<tvars, wvars, pvars, evars, svars, lvars>>

\* the promise of listen has settled: execute returns the execution, or
\* throws what listen rejected with
ExecuteResume ==
  /\ aPc = "listening"
  /\ lOutcome.state # "pending"
  /\ IF lOutcome.state = "resolved"
       THEN /\ aPc' = "returned"
            /\ aResult' = [type |-> "execution", job |-> NoJob,
                           execution |-> lOutcome, error |-> ""]
       ELSE /\ aPc' = "failed"
            /\ aResult' = [type |-> "thrown", job |-> NoJob, execution |-> Pending,
                           error |-> lOutcome.why]
  /\ UNCHANGED <<aWait, aPosts, aJob, aListens>>
  /\ UNCHANGED <<tvars, wvars, pvars, evars, svars, lvars>>

NextExecute ==
  \/ \E w \in WaitOptions : ExecuteCall(w)
  \/ \E job \in Jobs : ExecuteCreateReply(job)
  \/ ExecuteCreateError
  \/ ExecuteResume
  \/ ListenOnOpen
  \/ \E f \in Fragments : ListenOnMessage(f)
  \/ ListenOnClose
  \/ ListenOnError
  \/ ListenTimerFires
  \/ Tick

InitExecute == NoPagination /\ NoConnection /\ NoStream /\ NoListen /\ NoOthers

SpecExecute == InitExecute /\ [][NextExecute]_vars

\* a program that makes one call of the handler, listen or stream
InitHandler == NoPagination /\ NoConnection /\ NoStream /\ NoListen /\ NoOthers

NextHandler == NextListen \/ NextStream

SpecHandler == InitHandler /\ [][NextHandler]_vars

(***************************************************************************)
(* What the server's chain says a page and a traversal should show.        *)
(***************************************************************************)
\* the place in the chain of the response a page object wraps
PosOf(p) == CHOOSE k \in DOMAIN server : server[k] = p.response

\* raw results with t applied to each, in order
Elementwise(t, raw) ==
  [j \in 1..Len(raw) |-> IF t = "none" THEN raw[j] ELSE ApplyTransformer(t, raw[j])]

RECURSIVE ChainItemsFrom(_, _)
ChainItemsFrom(k, t) ==
  IF k \notin DOMAIN server THEN <<>>
  ELSE Elementwise(t, server[k].results) \o ChainItemsFrom(k + 1, t)

\* how many getNextPage calls lead from the first page to pages[i]
RECURSIVE PageDepth(_)
PageDepth(i) ==
  IF i = 1 THEN 0
  ELSE LET k == CHOOSE c \in 1..Len(calls) : calls[c].status = "page" /\ calls[c].result = i
       IN 1 + PageDepth(calls[k].on)

\* every request the pagination code has issued
AllRequests ==
  pending \cup {itReqs[i] : i \in 1..Len(itReqs)}
          \cup UNION {{calls[k].reqs[i] : i \in 1..Len(calls[k].reqs)} : k \in 1..Len(calls)}

\* requests of the traversal that were answered with a page
ItAnswered == Len(itReqs) - (IF itPc \in {"fetching", "failed"} THEN 1 ELSE 0)

\* the query-string parameters of a next URL: for every key the value of its
\* last occurrence
IsQueryOf(query, qs) ==
  /\ \A kv \in query : \E i \in 1..Len(qs) :
        /\ qs[i] = kv
        /\ \A m \in (i + 1)..Len(qs) : qs[m][1] # kv[1]
  /\ \A i \in 1..Len(qs) : \E kv \in query : kv[1] = qs[i][1]
  /\ \A kv1 \in query, kv2 \in query : kv1[1] = kv2[1] => kv1 = kv2

(***************************************************************************)
(* C1.  A completed traversal started on an offset page has yielded the    *)
(* transformed items of that page and of every later page of the chain,    *)
(* in order, each once.                                                    *)
(***************************************************************************)
C1_PageTraversalYieldsChain ==
  (itPc = "done" /\ itThis.kind = "Page")
    => yielded = ChainItemsFrom(PosOf(itThis), itThis.transformer)

(***************************************************************************)
(* C2.  When a stream of valid fragments has ended without error, the      *)
(* closed flag is set, the queue is empty and every fragment received has  *)
(* been yielded.                                                           *)
(***************************************************************************)
C2_StreamDrainsBeforeEnd ==
  (sPc = "done" /\ ~wsErrored /\ \A i \in 1..Len(received) : JSONParse(received[i]).ok)
    => /\ isConnectionClosed
       /\ queue = <<>>
       /\ Len(sYielded) = Len(received)

(***************************************************************************)
(* C3.  A stream fails with the timeout error only when the wait on the    *)
(* empty queue it was in has lasted the whole timeout.                     *)
(***************************************************************************)
C3_TimeoutIsIdle ==
  (sPc = "failed" /\ sErr = "timeout" /\ ~wsErrored) => now - sWaitStart >= timeout

(***************************************************************************)
(* C4.  As claimed: resolve and reject of a listen call are invoked at     *)
(* most once in total.                                                     *)
(***************************************************************************)
C4_OneSettleCall == Len(lCalls) <= 1

(***************************************************************************)
(* C4, amended.  The promise of a listen call is settled by the first      *)
(* invocation of resolve or reject and by no later one: it is pending      *)
(* exactly while neither has been invoked, every terminal event (close,    *)
(* error, timeout) invokes one of them, and the promise holds what the     *)
(* first invocation gave it, however many follow.                          *)
(***************************************************************************)
TerminalEvents == {i \in 1..Len(lEvents) : lEvents[i] \in {"close", "error", "timeout"}}

C4_SettledByFirstCall ==
  /\ lCalls = <<>> <=> lOutcome.state = "pending"
  /\ lCalls # <<>> => lOutcome = lCalls[1]
  /\ Len(lCalls) = Cardinality(TerminalEvents)

C4_Witness ==
  /\ Len(lCalls) >= 2
  /\ lCalls[1] = Rejected("timeout")
  /\ lCalls[2].state = "resolved"
  /\ lOutcome = lCalls[1]

(***************************************************************************)
(* C5.  After an 'error' event on a stream's connection no exception has   *)
(* been thrown out of an event listener, and the consumer is not left      *)
(* waiting and has not seen the sequence end without error.                *)
(***************************************************************************)
C5_StreamErrorSurfaces ==
  wsErrored => (uncaught = 0 /\ sPc \notin {"waiting", "done"})

(***************************************************************************)
(* C6.  Every request of getNextPage goes to the page's own path; its      *)
(* query is exactly the parameters of the page's next URL; its headers,    *)
(* signal, timeout and body are those of the page's options; the page      *)
(* built from the answer stores the options of the request.                *)
(***************************************************************************)
C6_NextOptions ==
  /\ \A r \in AllRequests :
       /\ r.path = r.from.path
       /\ r.path = ListPath
       /\ r.options.hasQuery
       /\ IsQueryOf(r.options.query, r.from.response.next.qs)
       /\ r.options.headers = r.from.options.headers
       /\ r.options.signal = r.from.options.signal
       /\ r.options.timeout = r.from.options.timeout
       /\ r.options.body = r.from.options.body
  /\ \A k \in 1..Len(calls) :
       calls[k].status = "page" =>
         /\ pages[calls[k].result].options = calls[k].reqs[1].options
         /\ pages[calls[k].result].path = pages[calls[k].on].path
  /\ (ItAnswered >= 1 /\ itSelf.kind # "none") =>
         /\ itSelf.options = itReqs[ItAnswered].options
         /\ itSelf.path = itThis.path

C6_Witness ==
  \E k \in 1..Len(calls) :
    /\ calls[k].status = "page"
    /\ <<"c", 3>> \in pages[calls[k].on].options.query
    /\ pages[calls[k].on].options.headers = "h1"
    /\ Len(pages[calls[k].on].response.next.qs) > 1
    /\ pages[calls[k].result].kind = "CursorPage"

(***************************************************************************)
(* C7.  Every page reached from the first page by getNextPage calls, at    *)
(* any depth, carries the first page's transformer: its getItems() is the  *)
(* transformer applied to each of its raw results, in order (the raw       *)
(* results themselves when there is no transformer).                       *)
(***************************************************************************)
C7_TransformCarried ==
  /\ \A i \in 1..Len(pages) :
       LET raw == server[PageDepth(i) + 1].results IN
       /\ pages[i].response.results = raw
       /\ GetItems(pages[i]) = Elementwise(pages[1].transformer, raw)
  /\ (itPc # "none" /\ itSelf.kind # "none") =>
       GetItems(itSelf) = Elementwise(itThis.transformer, server[PosOf(itSelf)].results)

C7_Witness ==
  \E i \in 1..Len(pages) :
    /\ PageDepth(i) = 2
    /\ pages[1].transformer = "f"
    /\ pages[i].kind = "Page"
    /\ Len(pages[i].response.results) = 2

(***************************************************************************)
(* C8.  getNextPage returns null without a request exactly when            *)
(* hasNextPage() is false, which is when next is null or ""; otherwise it  *)
(* issues exactly one request and, once answered, returns a page.          *)
(***************************************************************************)
C8_NoNextShortCircuit ==
  \A k \in 1..Len(calls) :
    LET c == calls[k]
        p == pages[c.on]
    IN /\ HasNextPage(p) <=> p.response.next.tag \notin {"null", "empty"}
       /\ c.status = "null" <=> ~HasNextPage(p)
       /\ ~HasNextPage(p) => c.reqs = <<>>
       /\ HasNextPage(p) =>
            /\ Len(c.reqs) = 1
            /\ c.status \in {"pending", "page", "error"}
            /\ c.status = "pending" <=> c.reqs[1] \in pending
            /\ c.status = "page" => c.result \in 1..Len(pages)

C8_Witness ==
  \E k1 \in 1..Len(calls), k2 \in 1..Len(calls) :
    /\ calls[k1].status = "null"
    /\ pages[calls[k1].on].response.next.tag = "empty"
    /\ pages[calls[k1].on].kind = "Page"
    /\ calls[k2].status = "page"

(***************************************************************************)
(* C9.  The traversal has a request outstanding only while it awaits       *)
(* getNextPage after a complete pass over the items it drains; at most     *)
(* one request is outstanding; once the consumer has left the loop no      *)
(* request is issued any more.                                             *)
(***************************************************************************)
ItPending == {r \in pending : r.by = "iter"}

C9_NoPrefetch ==
  /\ [](/\ Cardinality(ItPending) <= 1
        /\ ItPending # {} =>
             /\ itPc = "fetching"
             /\ itIdx = Len(IterItems(itThis, itSelf))
             /\ ItPending = {itReqs[Len(itReqs)]}
        /\ itPc = "returned" => ItPending = {})
  /\ [][(itReqs' # itReqs) =>
          /\ itPc \in {"none", "yielded", "fetching"}
          /\ itPc' = "fetching"
          /\ itIdx' = Len(IterItems(itThis', itSelf'))]_vars
  /\ [][itPc = "returned" => (itPc' = "returned" /\ itReqs' = itReqs)]_vars

C9_Witness ==
  /\ itPc = "returned"
  /\ itIdx < Len(IterItems(itThis, itSelf))
  /\ Len(itReqs) >= 1

(***************************************************************************)
(* C10.  A completed traversal started on a cursor page has yielded the    *)
(* transformed items of that page and of every later page of the chain,    *)
(* in order, each once.                                                    *)
(***************************************************************************)
C10_CursorTraversalYieldsChain ==
  (itPc = "done" /\ itThis.kind = "CursorPage")
    => yielded = ChainItemsFrom(PosOf(itThis), itThis.transformer)

(***************************************************************************)
(* C11.  When the consumer leaves a stream at an item while the            *)
(* connection is not CLOSED, ws.close() is called in that step, for the    *)
(* first time, and it is never called again afterwards: the count of       *)
(* close calls goes from 0 to 1 and stays 1.                               *)
(***************************************************************************)
C11_AbandonClosesOnce ==
  /\ [][(sPc = "yielded" /\ sPc' = "returned" /\ ws # "CLOSED")
          => (closeCalls = 0 /\ closeCalls' = 1)]_vars
  /\ [][sPc = "returned" => (sPc' = "returned" /\ closeCalls' = closeCalls)]_vars

C11_Witness ==
  /\ sPc = "returned"
  /\ Len(sYielded) = 1
  /\ closeCalls = 1
  /\ ~wsErrored
  /\ ~isConnectionClosed

(***************************************************************************)
(* C12.  Once a started stream has finished (exhausted, left by the        *)
(* consumer, failed on a parse or on the timeout) its connection is        *)
(* CLOSED or ws.close() has been called on it; ws.close() is never called  *)
(* on a connection whose readyState is CLOSED.                             *)
(***************************************************************************)
C12_ExitClosesConnection ==
  /\ []((sPc \in {"done", "failed", "returned"} /\ ws # "none")
          => (ws = "CLOSED" \/ closeCalls >= 1))
  /\ [][closeCalls' # closeCalls => (ws # "CLOSED" /\ closeCalls' = closeCalls + 1)]_vars

C12_Witness ==
  /\ sPc = "done"
  /\ ws = "CLOSED"
  /\ closeCalls = 0
  /\ Len(sYielded) >= 1

(***************************************************************************)
(* C13.  At every point the values a stream has yielded are the parses,    *)
(* one by one and in order, of the first fragments received: as many       *)
(* values as fragments consumed, none reordered, repeated or merged.       *)
(***************************************************************************)
C13_YieldedIsParsedPrefix ==
  /\ Len(sYielded) <= Len(received)
  /\ \A i \in 1..Len(sYielded) :
       /\ JSONParse(received[i]).ok
       /\ sYielded[i] = JSONParse(received[i])

C13_Witness ==
  /\ Len(sYielded) = 2
  /\ sYielded[1] # sYielded[2]
  /\ Len(received) = 3
  /\ Len(queue) = 1

(***************************************************************************)
(* C14.  A run of the stream's loop that finds a fragment that is not      *)
(* valid JSON at the head of the queue (at a pull by the consumer, or      *)
(* when the fragment arrives during a wait) fails with the parse error     *)
(* and yields nothing more; a failed stream yields nothing afterwards.     *)
(***************************************************************************)
C14_BadFragmentFails ==
  /\ [][(/\ sPc = "yielded"
         /\ sPc' \notin {"yielded", "returned"}
         /\ queue # <<>>
         /\ ~JSONParse(Head(queue)).ok)
          => (sPc' = "failed" /\ sErr' = "parse" /\ sYielded' = sYielded)]_vars
  /\ [][(/\ sPc = "waiting"
         /\ received' # received
         /\ ~JSONParse(received'[Len(received')]).ok)
          => (sPc' = "failed" /\ sErr' = "parse" /\ sYielded' = sYielded)]_vars
  /\ [][sPc = "failed" => sYielded' = sYielded]_vars

(***************************************************************************)
(* The first of close, error and timeout that a listen call has handled    *)
(* ("" while it has handled none), and whether a handler has run.          *)
(***************************************************************************)
FirstTerminalEvent ==
  IF TerminalEvents = {} THEN ""
  ELSE lEvents[CHOOSE i \in TerminalEvents : \A j \in TerminalEvents : i <= j]

Handled(e) == \E i \in 1..Len(lEvents) : lEvents[i] = e

(***************************************************************************)
(* C15.  When close is the first terminal event of a listen call and the   *)
(* fragments received, joined in arrival order, are a non-empty text, the  *)
(* promise is resolved with the parse of that text if it is one JSON       *)
(* document and rejected with the parse error if it is not.                *)
(***************************************************************************)
C15_CloseParsesWholeBuffer ==
  (FirstTerminalEvent = "close" /\ Join(received) # <<>>)
    => /\ chunks = received
       /\ lOutcome = IF JSONParse(Join(received)).ok
                       THEN Resolved(JSONParse(Join(received)))
                       ELSE Rejected("parse")

C15_Witness ==
  /\ FirstTerminalEvent = "close"
  /\ Len(received) = 2
  /\ ~JSONParse(received[1]).ok
  /\ ~JSONParse(received[2]).ok
  /\ lOutcome.state = "resolved"
  /\ lOutcome.value.depth = 1

(***************************************************************************)
(* C16.  When close is the first terminal event of a listen call and no    *)
(* fragment has been received, the promise is rejected with the            *)
(* closed-without-message error, which is not the parse error; a call      *)
(* that has received no fragment is never resolved and never rejected      *)
(* with the parse error, whatever events it has handled.                   *)
(***************************************************************************)
C16_EmptyCloseFails ==
  /\ (FirstTerminalEvent = "close" /\ received = <<>>)
       => (lOutcome = Rejected("empty") /\ lOutcome # Rejected("parse"))
  /\ received = <<>> => (lOutcome.state # "resolved" /\ lOutcome # Rejected("parse"))

C16_Witness ==
  /\ FirstTerminalEvent = "close"
  /\ received = <<>>
  /\ wsOpened
  /\ lOutcome = Rejected("empty")

(***************************************************************************)
(* C17.  When the timer of a listen call has run (it runs only while no    *)
(* close and no error has been handled, and not before its delay has       *)
(* passed), the promise is rejected with the timeout error and ws.close()  *)
(* has been called on the connection, once.                                *)
(***************************************************************************)
C17_TimeoutFailsAndCloses ==
  lTimer = "fired"
    => /\ FirstTerminalEvent = "timeout"
       /\ now >= lDeadline
       /\ lOutcome = Rejected("timeout")
       /\ closeCalls = 1
       /\ ws \in {"CLOSING", "CLOSED"}

C17_Witness ==
  /\ lTimer = "fired"
  /\ ws = "CLOSING"
  /\ wsOpened
  /\ ~Handled("close")

(***************************************************************************)
(* C18.  As claimed: after an error event that is the first terminal       *)
(* event of a listen call, the close handler does not run for that         *)
(* connection.                                                             *)
(***************************************************************************)
C18_ErrorBypassesClose ==
  FirstTerminalEvent = "error" => ~Handled("close")

(***************************************************************************)
(* C18, amended.  When error is the first terminal event of a listen       *)
(* call, the promise is rejected with the connection error from that       *)
(* event on, whatever fragments are buffered; the close handler that runs  *)
(* when the connection then closes makes its test and its resolve or       *)
(* reject call, and the promise stays rejected with the connection error.  *)
(***************************************************************************)
C18_ErrorOutcomeStands ==
  FirstTerminalEvent = "error"
    => /\ lOutcome = Rejected("error")
       /\ lCalls[1] = Rejected("error")
       /\ Handled("close") => (Len(lCalls) = 2 /\ lCalls[2] = HandleWebSocketClose(chunks))

C18_Witness ==
  /\ FirstTerminalEvent = "error"
  /\ Handled("close")
  /\ Len(lCalls) = 2
  /\ lCalls[2].state = "resolved"
  /\ lOutcome = Rejected("error")

(***************************************************************************)
(* C19.  No step after the call moves the deadline of a listen call, and   *)
(* a fragment leaves its timer as it is; the timer stays armed until a     *)
(* close, an error or the timeout is handled; when it runs the promise is  *)
(* rejected with the timeout error and never holds the buffered            *)
(* fragments, however many arrived and however late.                       *)
(***************************************************************************)
C19_FragmentsDoNotExtendTimeout ==
  /\ [][lPc = "listening" => lDeadline' = lDeadline]_vars
  /\ [][received' # received => lTimer' = lTimer]_vars
  /\ []((lPc = "listening" /\ TerminalEvents = {}) => lTimer = "armed")
  /\ [](FirstTerminalEvent = "timeout"
          => (lOutcome = Rejected("timeout") /\ lOutcome.value = ParseFailure))

C19_Witness ==
  /\ FirstTerminalEvent = "timeout"
  /\ Len(chunks) = 2
  /\ JSONParse(Join(chunks)).ok
  /\ lEvents[Len(lEvents)] = "close"
  /\ now = lDeadline
  /\ lOutcome = Rejected("timeout")

(***************************************************************************)
(* C20.  As claimed: once listen or stream has been called, exactly one    *)
(* connection has been created.                                            *)
(***************************************************************************)
C20_OpenedAtCall ==
  (lPc # "none" \/ sPc # "none") => connections = 1

(***************************************************************************)
(* C20, amended.  A call creates at most one connection and never a        *)
(* second one after close, error or timeout.  listen creates it in the     *)
(* call.  stream creates it when the consumer requests the first item:     *)
(* none exists between the call and that request, and none is ever         *)
(* created for a sequence given up before its first request.               *)
(***************************************************************************)
C20_OneConnectionPerCall ==
  /\ [](/\ connections <= 1
        /\ connections = 0 <=> ws = "none"
        /\ lPc # "none" => connections = 1
        /\ sPc \in {"none", "created"} => (connections = 1 <=> lPc # "none")
        /\ sPc \in {"waiting", "yielded", "done", "failed"} => connections = 1)
  /\ [][connections' # connections
          => \/ lPc = "none" /\ lPc' = "listening"
             \/ sPc = "created" /\ sPc' \in {"waiting", "yielded", "failed"}]_vars

C20_Witness ==
  /\ sPc = "failed"
  /\ sErr = "timeout"
  /\ ws = "CLOSED"
  /\ connections = 1
  /\ Len(sYielded) >= 1

(***************************************************************************)
(* C21.  A stream suspended on an empty queue resumes: a fragment that     *)
(* arrives is parsed and, if valid, is the next value yielded; a close     *)
(* ends the sequence without error; the timer's callback fails it with     *)
(* the timeout error; and in a process that stays alive every wait ends.   *)
(***************************************************************************)
C21_WaitAlwaysEnds ==
  /\ [][(sPc = "waiting" /\ received' # received /\ JSONParse(received'[Len(received')]).ok)
          => /\ sPc' = "yielded"
             /\ sYielded' = Append(sYielded, JSONParse(received'[Len(received')]))]_vars
  /\ [][(sPc = "waiting" /\ ~isConnectionClosed /\ isConnectionClosed')
          => (sPc' = "done" /\ sErr' = "" /\ sYielded' = sYielded)]_vars
  /\ [][(sPc = "waiting" /\ sTimer = "armed" /\ sTimer' = "fired")
          => (sPc' = "failed" /\ sErr' = "timeout")]_vars
  /\ [](sPc = "waiting" => (queue = <<>> /\ sTimer = "armed" /\ sDeadline <= MaxTime))
  /\ (sPc = "waiting") ~> (sPc # "waiting" \/ crashed)

C21_Witness ==
  /\ sPc = "failed"
  /\ sErr = "timeout"
  /\ Len(sYielded) = 1
  /\ now - sWaitStart = timeout
  /\ ~wsErrored

(***************************************************************************)
(* C22.  The error a failed next-page request was failed with is the one   *)
(* the caller of getNextPage, or the consumer of the traversal, holds;     *)
(* the failed call or traversal made that request last and only once, and  *)
(* a failed traversal issues no request and yields nothing afterwards,     *)
(* its items already yielded staying as they are.                          *)
(***************************************************************************)
C22_FetchErrorPropagates ==
  /\ [](\A k \in 1..Len(calls) :
          calls[k].status = "error"
            => /\ Len(calls[k].reqs) = 1
               /\ [req |-> calls[k].reqs[1], error |-> calls[k].result] \in failures
               /\ calls[k].reqs[1] \notin pending)
  /\ [](itPc = "failed"
          => /\ itReqs # <<>>
             /\ [req |-> itReqs[Len(itReqs)], error |-> itErr] \in failures
             /\ \A i \in 1..Len(itReqs), j \in 1..Len(itReqs) :
                   i # j => itReqs[i].from # itReqs[j].from
             /\ ItPending = {})
  /\ [](\A f \in failures :
          /\ f.req.by = "iter" => (itPc = "failed" /\ f.req = itReqs[Len(itReqs)])
          /\ f.req.by = "manual" => calls[f.req.call].status = "error")
  /\ [][itPc = "failed"
          => (itPc' = "failed" /\ itErr' = itErr /\ itReqs' = itReqs /\ yielded' = yielded)]_vars

C22_Witness ==
  /\ itPc = "failed"
  /\ itErr = 500
  /\ Len(itReqs) = 2
  /\ Len(yielded) >= 2
  /\ \E k \in 1..Len(calls) : calls[k].status = "error" /\ calls[k].result = 404

(***************************************************************************)
(* C25.  A traversal started on the page at place s of a chain of N        *)
(* responses issues at most N - s requests, exactly N - s once it is       *)
(* done; the k-th goes to the list path with the query of the next URL of  *)
(* the response at place s + k - 1, which is the response received last,   *)
(* and it is issued only when every earlier one has been answered.         *)
(***************************************************************************)
C25_SequentialFetches ==
  itPc # "none" =>
    LET start == PosOf(itThis) IN
    /\ Len(itReqs) <= Len(server) - start
    /\ itPc = "done" => Len(itReqs) = Len(server) - start
    /\ \A k \in 1..Len(itReqs) :
         /\ itReqs[k].path = ListPath
         /\ itReqs[k].path = itThis.path
         /\ itReqs[k].from.response = server[start + k - 1]
         /\ IsQueryOf(itReqs[k].options.query, server[start + k - 1].next.qs)
         /\ <<"page", start + k>> \in itReqs[k].options.query
         /\ k < Len(itReqs) => itReqs[k] \notin pending
    /\ Cardinality(ItPending) <= 1

C25_Witness ==
  /\ itPc = "done"
  /\ itThis.kind = "CursorPage"
  /\ PosOf(itThis) = 1
  /\ Len(server) = 3
  /\ Len(itReqs) = 2

(***************************************************************************)
(* A traversal of page p run alone, every request answered at once: what   *)
(* it yields and the requests it issues.                                   *)
(***************************************************************************)
RECURSIVE AloneRun(_, _, _, _)
AloneRun(this, self, idx, acc) ==
  LET r == IterAdvance(this, self, idx) IN
  IF r.pc = "yielded"
    THEN AloneRun(this, r.self, r.idx, [acc EXCEPT !.yielded = acc.yielded \o r.out])
  ELSE IF r.pc = "fetching"
    THEN LET rq == Request(self, "alone", Len(acc.reqs) + 1)
             page == NextPage(self, rq, ServerResponse(rq.path, rq.options))
         IN AloneRun(this, page, 0, [acc EXCEPT !.reqs = Append(acc.reqs, rq)])
  ELSE acc

Alone(p) == AloneRun(p, p, 0, [yielded |-> <<>>, reqs |-> <<>>])

\* what a request asks of the transport
Asked(reqs) == [i \in 1..Len(reqs) |-> [path |-> reqs[i].path, options |-> reqs[i].options]]

IsPrefix(a, b) == Len(a) <= Len(b) /\ \A i \in 1..Len(a) : a[i] = b[i]

(***************************************************************************)
(* C26.  No operation changes a page object: the pages a caller holds and  *)
(* the page a traversal was started on stay as they were built.  Two       *)
(* getNextPage calls on one page ask the transport the same thing.  Each   *)
(* of two traversals, however their steps and the explicit calls           *)
(* interleave, has yielded and asked a prefix of what a traversal of its   *)
(* page run alone yields and asks, and all of it once done.                *)
(***************************************************************************)
C26_PagesAreImmutable ==
  /\ [][/\ \A i \in 1..Len(pages) : i \in DOMAIN pages' /\ pages'[i] = pages[i]
        /\ itPc # "none" => itThis' = itThis
        /\ it2.pc # "none" => it2'.this = it2.this]_vars
  /\ [](\A k1 \in 1..Len(calls), k2 \in 1..Len(calls) :
          calls[k1].on = calls[k2].on => Asked(calls[k1].reqs) = Asked(calls[k2].reqs))
  /\ [](itPc # "none"
          => LET alone == Alone(itThis) IN
             /\ IsPrefix(yielded, alone.yielded)
             /\ IsPrefix(Asked(itReqs), Asked(alone.reqs))
             /\ itPc = "done" => /\ yielded = alone.yielded
                                 /\ Asked(itReqs) = Asked(alone.reqs))
  /\ [](it2.pc # "none"
          => LET alone == Alone(it2.this) IN
             /\ IsPrefix(it2.yielded, alone.yielded)
             /\ IsPrefix(Asked(it2.reqs), Asked(alone.reqs))
             /\ it2.pc = "done" => /\ it2.yielded = alone.yielded
                                   /\ Asked(it2.reqs) = Asked(alone.reqs))

C26_Witness ==
  /\ itPc = "done"
  /\ it2.pc = "yielded"
  /\ it2.this = itThis
  /\ Len(itReqs) = 2
  /\ Len(it2.reqs) = 1
  /\ Len(it2.yielded) = 3
  /\ \E k1 \in 1..Len(calls), k2 \in 1..Len(calls) :
       k1 # k2 /\ calls[k1].on = calls[k2].on /\ calls[k1].status = "page"
               /\ calls[k2].status = "page"

(***************************************************************************)
(* C23.  A waitForBuildCompletion call that has ended returned a build     *)
(* only if the build polled last has status success, threw if the build    *)
(* polled last has status failure, and threw if its job was found and no   *)
(* polled build had status success or failure (the wait timed out).        *)
(***************************************************************************)
PolledVerdict == \E i \in 1..Len(wPolled) : wPolled[i].status \in {"success", "failure"}

C23_BuildWaitOutcome ==
  /\ wOutcome.kind = "returned"
       => /\ wPolled # <<>>
          /\ wPolled[Len(wPolled)].status = "success"
          /\ wOutcome.build = wPolled[Len(wPolled)]
  /\ (wPolled # <<>> /\ wPolled[Len(wPolled)].status = "failure")
       => wOutcome = Thrown("Build failed")
  /\ (wPc \in {"returned", "thrown"} /\ wOutcome # Thrown("Agent builder job not found")
        /\ ~PolledVerdict)
       => wOutcome.kind = "thrown"

(***************************************************************************)
(* C27.  Once the close or the error handler of a listen call has run,     *)
(* its timer is no longer armed and the timer's callback never runs: no    *)
(* timeout is handled after a close or an error, and ws.close() is called  *)
(* by the callback only, so never after one of them.                       *)
(***************************************************************************)
C27_TimerCancelledOnTerminal ==
  /\ (Handled("close") \/ Handled("error")) => lTimer # "armed"
  /\ \A i, j \in 1..Len(lEvents) :
       (i < j /\ lEvents[i] \in {"close", "error"}) => lEvents[j] # "timeout"
  /\ (FirstTerminalEvent \in {"close", "error"})
       => (closeCalls = 0 /\ \A k \in 1..Len(lCalls) : lCalls[k] # Rejected("timeout"))

C27_Witness ==
  /\ FirstTerminalEvent = "close"
  /\ lOutcome.state = "resolved"
  /\ lTimer = "cleared"
  /\ now > lDeadline

(***************************************************************************)
(* C28.  A settled listen promise never changes, and what it holds is      *)
(* what the first terminal event gave it: the connection error for an      *)
(* error, the timeout error for the timeout, the close handler's result    *)
(* for a close; fragments and a close that come later leave it alone.      *)
(***************************************************************************)
C28_FirstTerminalEventDecides ==
  /\ [][lOutcome.state # "pending" => lOutcome' = lOutcome]_vars
  /\ [](FirstTerminalEvent = "error" => lOutcome = Rejected("error"))
  /\ [](FirstTerminalEvent = "timeout" => lOutcome = Rejected("timeout"))
  /\ [](FirstTerminalEvent = "close" => lOutcome = HandleWebSocketClose(received))
  /\ [](FirstTerminalEvent = "" => lOutcome = Pending)

C28_Witness ==
  /\ Len(lEvents) >= 3
  /\ lEvents[Len(lEvents) - 2] = "error"
  /\ lEvents[Len(lEvents) - 1] = "message"
  /\ lEvents[Len(lEvents)] = "close"
  /\ lCalls[Len(lCalls)].state = "resolved"
  /\ lOutcome = Rejected("error")

(***************************************************************************)
(* C29.  The once-listeners a wait of a stream registered are gone when    *)
(* the wait has ended: none is registered while the generator is not       *)
(* waiting, and at most one for 'message' and one for 'close' while it is. *)
(***************************************************************************)
C29_WakeListenersRemoved ==
  /\ sPc # "waiting" => (onceMsg = 0 /\ onceClose = 0)
  /\ onceMsg <= 1
  /\ onceClose <= 1

(***************************************************************************)
(* C30.  Once a stream has ended by a close, by the consumer leaving or by *)
(* a parse failure, the timer of timeoutPromise is not armed, and its      *)
(* callback does not run afterwards.                                       *)
(***************************************************************************)
EndedWithoutTimeout ==
  sPc \in {"done", "returned"} \/ (sPc = "failed" /\ sErr = "parse")

C30_NoTimerAfterEnd ==
  /\ [](EndedWithoutTimeout => sTimer # "armed")
  /\ [][EndedWithoutTimeout => sTimer' = sTimer]_vars

(***************************************************************************)
(* C24.  agent.execute posts to the create endpoint first, once, and no    *)
(* connection exists before the job has been created.  With wait true it   *)
(* calls listen once, on the path of the job's execution address, and      *)
(* returns a result of type 'execution' holding what listen resolved       *)
(* with.  With wait false or absent it creates no connection and returns   *)
(* a result of type 'agent_executor_job' holding the created job.  When    *)
(* the creation fails no connection is created.                            *)
(***************************************************************************)
C24_ExecuteProtocol ==
  /\ aPc # "none" => aPosts = <<CreatePath>>
  /\ aJob = NoJob => (connections = 0 /\ aListens = <<>>)
  /\ aResult.error = "create" => (aJob = NoJob /\ connections = 0)
  /\ (WaitRequested(aWait) /\ aJob # NoJob)
       => /\ connections = 1
          /\ aListens = <<ExecutionPath(aJob.execution_address)>>
          /\ aPc = "returned"
               => /\ aResult.type = "execution"
                  /\ lOutcome.state = "resolved"
                  /\ aResult.execution = lOutcome
  /\ ~WaitRequested(aWait)
       => /\ connections = 0
          /\ aListens = <<>>
          /\ lPc = "none"
          /\ aPc = "returned"
               => (aResult.type = "agent_executor_job" /\ aResult.job = aJob /\ aJob \in Jobs)

C24_Witness ==
  /\ aPc = "returned"
  /\ aWait = "true"
  /\ aResult.type = "execution"
  /\ aResult.execution = Resolved(JSONParse(<<"[", "1", "]">>))
  /\ aListens = <<ExecutionPath("addr2")>>
  /\ connections = 1

====
